---- MODULE Spec2Model ----
(***************************************************************************)
(* Jobify.AI backend: the entity matcher (app/services/pinecone_service),  *)
(* the Flask email parser (app/services/email_parser) and the standalone   *)
(* pipeline script (Main/main.py), modelled as state machines.             *)
(*                                                                         *)
(* Text is a sequence of one-character strings, so that Python's           *)
(* str.lower, the substring test `a in b` and str.split are computed       *)
(* character by character.  Python None is the value None (0) where an     *)
(* application id is expected: ids are autoincremented from 1.             *)
(***************************************************************************)
EXTENDS Integers, Sequences, FiniteSets, TLC

VARIABLES
    program,       \* which program is deployed: "script" (Main/main.py), "app" (the Flask app), "matcher"
    fm,            \* one call of find_matching_application: arguments, progress, result
    applications,  \* table applications: sequence of rows, application_id = position
    rejections,    \* table rejections: set of rows, primary key application_id
    interviews,    \* table interviews: sequence of rows
    offers,        \* table offers: sequence of rows
    pinecone,      \* the vector index: sequence of records (namespace / type, metadata)
    user,          \* the row of table user for the one account
    now,           \* the wall clock
    mailbox,       \* the Gmail mailbox: sequence of received emails
    run,           \* the pipeline run in progress (local variables of main / process_user_emails)
    handed         \* history: for each email, the runs that handed it to classification

vars == <<program, fm, applications, rejections, interviews, offers, pinecone, user, now, mailbox, run, handed>>

None == 0

----------------------------------------------------------------------------
(* Text *)

Acme == <<"A", "c", "m", "e">>
AcmeCorp == <<"A", "c", "m", "e", " ", "C", "o", "r", "p">>
CorpAcme == <<"C", "o", "r", "p", " ", "A", "c", "m", "e">>
Globex == <<"G", "l", "o", "b", "e", "x">>
EmptyText == <<>>
Blank == <<" ">>

SWE == <<"S", "W", "E">>
SoftwareEngineer == <<"S", "o", "f", "t", "w", "a", "r", "e", " ", "E", "n", "g", "i", "n", "e", "e", "r">>
DevOps == <<"D", "e", "v", " ", "O", "p", "s">>
OpsQaMl == <<"O", "p", "s", " ", "Q", "A", " ", "M", "L">>
DevOpsLead == <<"D", "e", "v", " ", "O", "p", "s", " ", "L", "e", "a", "d">>
OpsDevQaMl == <<"O", "p", "s", " ", "D", "e", "v", " ", "Q", "A", " ", "M", "L">>

LowerCaseOf ==
    ("A" :> "a") @@ ("C" :> "c") @@ ("D" :> "d") @@ ("E" :> "e") @@ ("G" :> "g") @@
    ("L" :> "l") @@ ("M" :> "m") @@ ("O" :> "o") @@ ("Q" :> "q") @@ ("S" :> "s") @@
    ("W" :> "w")

\* str.lower()
lower(s) == [i \in 1..Len(s) |-> IF s[i] \in DOMAIN LowerCaseOf THEN LowerCaseOf[s[i]] ELSE s[i]]

\* Python's `a in b` on strings: a occurs in b as a contiguous substring
IsSubstring(a, b) ==
    \E k \in 0..(Len(b) - Len(a)) : \A i \in 1..Len(a) : b[k + i] = a[i]

\* set(s.split()): the set of maximal runs of non-blank characters
RECURSIVE SplitFrom(_, _, _)
SplitFrom(s, i, word) ==
    IF i > Len(s)
    THEN IF word = <<>> THEN {} ELSE {word}
    ELSE IF s[i] = " "
         THEN (IF word = <<>> THEN {} ELSE {word}) \cup SplitFrom(s, i + 1, <<>>)
         ELSE SplitFrom(s, i + 1, Append(word, s[i]))

words(s) == SplitFrom(s, 1, <<>>)

max(a, b) == IF a >= b THEN a ELSE b

\* a similarity that scores equal strings 1 and other containments 0.9
similarity_equal_is_one(str1, str2) ==
    LET s1 == lower(str1)
        s2 == lower(str2)
        words1 == words(s1)
        words2 == words(s2)
        common_words == words1 \cap words2
    IN  IF s1 = s2
        THEN <<1, 1>>
        ELSE IF IsSubstring(s1, s2) \/ IsSubstring(s2, s1)
             THEN <<9, 10>>
             ELSE IF words1 = {} \/ words2 = {}
                  THEN <<0, 1>>
                  ELSE <<Cardinality(common_words), max(1, Cardinality(words1 \cup words2))>>

\* similarity(str1, str2): the result as the fraction <<numerator, denominator>>
similarity(str1, str2) ==
    LET s1 == lower(str1)
        s2 == lower(str2)
        words1 == words(s1)
        words2 == words(s2)
        common_words == words1 \cap words2
    IN  IF IsSubstring(s1, s2) \/ IsSubstring(s2, s1)
        THEN <<9, 10>>
        ELSE IF words1 = {} \/ words2 = {}
             THEN <<0, 1>>
             ELSE <<Cardinality(common_words), max(1, Cardinality(words1 \cup words2))>>

----------------------------------------------------------------------------
(* The combined score is an IEEE-754 double.  FloatUlp lists, for           *)
(* similarities with denominators up to 6, the pairs (company_sim,         *)
(* position_sim) = (a/b, c/d) for which (a/b * 0.6) + (c/d * 0.4) computed  *)
(* in doubles is not the double nearest to the exact value, with the       *)
(* signed number of units in the last place it is off by.  A score is      *)
(* <<numerator, denominator, ulp>>; doubles compare as (exact value, ulp)  *)
(* lexicographically on this domain.                                       *)

FloatUlp ==
    { <<0, 1, 1, 5, 1>>, <<0, 1, 2, 5, 1>>, <<0, 1, 3, 4, 1>>, <<0, 1, 4, 5, 1>>,
      <<0, 1, 5, 6, 1>>, <<0, 1, 9, 10, 1>>, <<1, 6, 0, 1, -1>>, <<1, 6, 3, 5, -1>>,
      <<1, 6, 4, 5, 1>>, <<1, 5, 1, 6, -1>>, <<1, 5, 1, 3, -1>>, <<1, 5, 3, 4, 1>>,
      <<1, 5, 4, 5, 1>>, <<1, 5, 5, 6, 1>>, <<1, 5, 9, 10, 1>>, <<1, 4, 2, 5, 1>>,
      <<1, 4, 2, 3, -1>>, <<1, 4, 3, 4, 1>>, <<1, 4, 4, 5, 2>>, <<1, 4, 5, 6, 1>>,
      <<1, 3, 0, 1, -1>>, <<1, 3, 3, 5, -1>>, <<2, 5, 1, 4, -1>>, <<2, 5, 1, 3, -1>>,
      <<2, 5, 2, 3, -1>>, <<2, 5, 9, 10, 1>>, <<1, 2, 3, 4, 1>>, <<1, 2, 4, 5, 1>>,
      <<3, 5, 1, 6, -1>>, <<3, 5, 1, 4, -1>>, <<3, 5, 1, 3, -1>>, <<2, 3, 0, 1, -1>>,
      <<2, 3, 1, 6, -1>>, <<2, 3, 3, 5, -1>>, <<2, 3, 5, 6, 1>>, <<3, 4, 0, 1, -1>>,
      <<3, 4, 1, 6, -1>>, <<3, 4, 1, 4, -1>>, <<3, 4, 1, 3, -1>>, <<3, 4, 1, 2, -1>>,
      <<3, 4, 2, 3, -1>>, <<4, 5, 1, 2, -1>>, <<4, 5, 2, 3, -1>>, <<4, 5, 9, 10, 1>>,
      <<5, 6, 1, 5, 1>>, <<5, 6, 2, 3, -1>>, <<5, 6, 4, 5, 1>>, <<5, 6, 9, 10, 1>>,
      <<9, 10, 1, 5, 1>>, <<9, 10, 2, 5, 1>>, <<9, 10, 3, 4, 1>>, <<9, 10, 4, 5, 1>>,
      <<9, 10, 5, 6, 1>>, <<9, 10, 9, 10, 1>>, <<9, 10, 1, 1, 1>>, <<1, 1, 1, 5, -1>> }

UlpOf(cs, ps) ==
    LET hit == {t \in FloatUlp : /\ cs[1] * t[2] = t[1] * cs[2]
                                 /\ ps[1] * t[4] = t[3] * ps[2]}
    IN  IF hit = {} THEN 0 ELSE (CHOOSE t \in hit : TRUE)[5]

\* combined_score = (company_sim * 0.6) + (position_sim * 0.4)
combined_score(company_sim, position_sim) ==
    << 6 * company_sim[1] * position_sim[2] + 4 * position_sim[1] * company_sim[2],
       10 * company_sim[2] * position_sim[2],
       UlpOf(company_sim, position_sim) >>

\* a > b on doubles
ScoreGT(a, b) ==
    \/ a[1] * b[2] > b[1] * a[2]
    \/ a[1] * b[2] = b[1] * a[2] /\ a[3] > b[3]

Threshold == <<7, 10, 0>>
ZeroScore == <<0, 1, 0>>

\* the score of one returned match against the query
MatchScore(company_name, position_title, m) ==
    combined_score(similarity(lower(company_name), lower(m.company_name)),
                   similarity(lower(position_title), lower(m.position_title)))

\* the loop over matches of find_matching_application: best = <<best_score, best_match>>
RECURSIVE BestFrom(_, _, _, _, _)
BestFrom(matches, i, company_name, position_title, best) ==
    IF i > Len(matches)
    THEN best
    ELSE LET score == MatchScore(company_name, position_title, matches[i])
         IN  IF ScoreGT(score, best[1]) /\ ScoreGT(score, Threshold)
             THEN BestFrom(matches, i + 1, company_name, position_title,
                           <<score, matches[i].application_id>>)
             ELSE BestFrom(matches, i + 1, company_name, position_title, best)

\* find_matching_application, given what query_vector returned
find_matching_application(matches, company_name, position_title) ==
    IF matches = <<>>
    THEN None
    ELSE BestFrom(matches, 1, company_name, position_title, <<ZeroScore, None>>)[2]

----------------------------------------------------------------------------
(* One call of find_matching_application on what query_vector returned.     *)

MaxMatches == 2
MaxAppId == 2

QueryCompanies == {Acme, AcmeCorp}
QueryRoles == {SWE, DevOps, DevOpsLead}
StoredCompanies == {Acme, CorpAcme, Globex, EmptyText, Blank}
StoredRoles == {SWE, SoftwareEngineer, DevOps, OpsQaMl, OpsDevQaMl}

\* the metadata of a vector written by generate_and_upsert_application
Candidates ==
    [application_id : 1..MaxAppId, company_name : StoredCompanies, position_title : StoredRoles]

MatchLists == UNION {[1..n -> Candidates] : n \in 0..MaxMatches}

IdleCall == [pc |-> "idle"]

\* the stores and the run outside a pipeline
NoUser == [exists |-> FALSE]
IdleRun == [pc |-> "idle", n |-> 0]

StoresEmpty ==
    /\ applications = <<>>
    /\ rejections = {}
    /\ interviews = <<>>
    /\ offers = <<>>
    /\ pinecone = <<>>

InitMatch ==
    /\ program = "matcher"
    /\ fm \in [pc : {"call"}, company_name : QueryCompanies, position_title : QueryRoles,
               embedding_ok : BOOLEAN, matches : MatchLists, result : {None}]
    /\ StoresEmpty
    /\ user = NoUser
    /\ now = 0
    /\ mailbox = <<>>
    /\ run = IdleRun
    /\ handed = <<>>

\* find_matching_application: embedding of the query, query_vector, the re-scoring loop
FindMatchingApplication ==
    /\ fm.pc = "call"
    /\ fm' = [fm EXCEPT !.pc = "done",
                        !.result = IF ~fm.embedding_ok
                                   THEN None
                                   ELSE find_matching_application(fm.matches, fm.company_name,
                                                                  fm.position_title)]
    /\ UNCHANGED <<program, applications, rejections, interviews, offers, pinecone, user,
                   now, mailbox, run, handed>>

NextMatch == FindMatchingApplication

SpecMatch == InitMatch /\ [][NextMatch]_vars

----------------------------------------------------------------------------
(* The mailbox, the clock and the classified events.                        *)

MaxTime == 2        \* the clock runs over 0..MaxTime
TicksPerDay == 2    \* clock ticks in one calendar day
MaxEmails == 3      \* emails ever received
MaxRuns == 2        \* pipeline runs ever started
MaxDate == 2        \* event dates are 1..MaxDate
MaxFaults == 1      \* exceptions ever raised while emails are processed

Epoch == 0          \* datetime.fromtimestamp(0, tz=timezone.utc)
CustomEnd == 1      \* custom_end = datetime(2024, 8, 19), on the model's clock

UserEmail == "default@example.com"
NoneOfThese == "None of These"
OA == <<"O", "A">>

\* the fields the classifier extracts; a missing text field is EmptyText, a missing date None
Event(status, company_name, role, date) ==
    [status |-> status, company_name |-> company_name, role |-> role, date |-> date,
     interview_round |-> IF status = "interview" THEN OA ELSE EmptyText]

JobEvents ==
    {Event("applied", Acme, SWE, 1)}
    \cup {Event(s, Acme, IF s = "offer" THEN SoftwareEngineer ELSE SWE, d) :
            s \in {"interview", "rejected", "offer"}, d \in 1..MaxDate}

\* the subject line: does it hold one of the 'thank you for applying' phrases, and the
\* company the pattern "to ([A-Z][\w\s&.-]+)" finds in it (EmptyText: no match)
PlainSubject == [heuristic_kw |-> FALSE, named_company |-> EmptyText]
ThanksSubject == [heuristic_kw |-> TRUE, named_company |-> Acme]

\* what an email can be: its subject and what the classifier answers for it
MailContents ==
    [subject : {PlainSubject},
     ext : JobEvents \cup {Event("applied", Acme, EmptyText, 1),
                           Event("rejected", Acme, EmptyText, 1)}]
    \cup [subject : {PlainSubject, ThanksSubject},
          ext : {Event(NoneOfThese, EmptyText, EmptyText, None)}]
    \cup [subject : {ThanksSubject}, ext : {Event(NoneOfThese, EmptyText, SWE, 1)}]

Truthy(text) == text # EmptyText

min(a, b) == IF a <= b THEN a ELSE b

Day(t) == t \div TicksPerDay

----------------------------------------------------------------------------
(* Main/main.py: the standalone pipeline.                                   *)

\* get_last_update_timestamp: the user row, created with the epoch on first use
get_last_update_timestamp(u) ==
    IF u.exists THEN u ELSE [exists |-> TRUE, email_parse_start_date |-> Epoch,
                             emails_parsed |-> FALSE]

\* list_gmail_messages: q = "after:{last_ts} before:{current_ts}", sorted by internalDate
list_gmail_messages(last_ts, current_ts) ==
    SelectSeq(mailbox, LAMBDA m : last_ts <= m.internalDate /\ m.internalDate < current_ts)

\* the heuristic fallback of process_messages on the classifier's answer
Heuristic(m) ==
    IF m.ext.status = NoneOfThese /\ m.subject.heuristic_kw
    THEN [m.ext EXCEPT !.status = "applied",
                       !.company_name = IF ~Truthy(@) /\ Truthy(m.subject.named_company)
                                        THEN m.subject.named_company ELSE @]
    ELSE m.ext

\* a required-fields check that asks for the company name only
RequiredPresentCompanyOnly(extraction) ==
    Truthy(extraction.company_name)

\* all(extraction.get(k) for k in ["company_name", "role", "date", "status"])
RequiredPresent(extraction) ==
    /\ Truthy(extraction.company_name)
    /\ Truthy(extraction.role)
    /\ extraction.date # None

\* parse_date_safe on the ISO date the classifier returns
parse_date_safe(date) == date

\* an insert that is skipped when the user already has an Application of the company
\* and role
insert_application_once(apps, user_email, data) ==
    IF \E i \in DOMAIN apps : /\ apps[i].company_name = data.company_name
                              /\ apps[i].position_title = data.role
    THEN apps
    ELSE Append(apps, [application_id |-> Len(apps) + 1, user_email_id |-> user_email,
                       company_name |-> data.company_name, position_title |-> data.role,
                       application_date |-> data.date])

\* insert_application: the new row, application_id autoincremented
insert_application(apps, user_email, data) ==
    Append(apps, [application_id |-> Len(apps) + 1, user_email_id |-> user_email,
                  company_name |-> data.company_name, position_title |-> data.role,
                  application_date |-> parse_date_safe(data.date)])

\* pinecone_upsert: every call writes a vector under a fresh random id
pinecone_upsert(index, namespace, user_email, application_id, data) ==
    Append(index, [namespace |-> namespace, user_email |-> user_email,
                   application_id |-> application_id, status |-> data.status,
                   company_name |-> data.company_name, role |-> data.role,
                   interview_round |-> data.interview_round])

\* search_pinecone(...).matches[0].metadata.get("application_id"): the nearest vector of
\* the user in the namespace, whichever the embedding makes nearest; None without one
search_pinecone(index, namespace, user_email) ==
    LET hits == {i \in DOMAIN index : /\ index[i].namespace = namespace
                                      /\ index[i].user_email = user_email}
    IN  IF hits = {} THEN {None} ELSE {index[i].application_id : i \in hits}

\* the namespaces process_messages searches for a status, in order
SearchOrder(status) ==
    CASE status = "rejected" -> <<"applications">>
      [] status = "interview" -> <<"interview", "applications">>
      [] status = "offer" -> <<"offer", "interview", "applications">>
      [] OTHER -> <<>>

\* match_id: the first namespace of the order that yields an application_id
RECURSIVE search_chain(_, _, _, _)
search_chain(index, order, i, user_email) ==
    IF i > Len(order)
    THEN {None}
    ELSE LET ids == search_pinecone(index, order[i], user_email)
         IN  IF ids = {None} THEN search_chain(index, order, i + 1, user_email) ELSE ids

\* the namespace process_messages upserts to for a status
UpsertNamespace(status) ==
    CASE status = "applied" -> "applications"
      [] status = "rejected" -> "rejection"
      [] status = "interview" -> "interview"
      [] status = "offer" -> "offer"

\* session.merge(rej): insert, or overwrite the row with the same primary key
merge_rejection(rows, rej) ==
    {r \in rows : r.application_id # rej.application_id} \cup {rej}

\* one iteration of the loop of process_messages on a well-formed event whose search
\* gave match_id: the stores after it, the application it resolved to, whether it is new
ScriptApply(data, match_id) ==
    LET create == data.status = "applied" \/ match_id = None
        apps == IF create THEN insert_application(applications, UserEmail, data)
                ELSE applications
        app_id == IF create THEN Len(apps) ELSE match_id
    IN  [applications |-> apps,
         rejections |->
            IF data.status = "rejected"
            THEN merge_rejection(rejections,
                    [application_id |-> app_id, company_name |-> data.company_name,
                     position_title |-> data.role,
                     rejection_date |-> parse_date_safe(data.date)])
            ELSE rejections,
         interviews |->
            IF data.status = "interview"
            THEN Append(interviews,
                    [id |-> Len(interviews) + 1, application_id |-> app_id,
                     company_name |-> data.company_name, position_title |-> data.role,
                     round |-> data.interview_round,
                     invitation_date |-> parse_date_safe(data.date)])
            ELSE interviews,
         offers |->
            IF data.status = "offer"
            THEN Append(offers,
                    [id |-> Len(offers) + 1, application_id |-> app_id,
                     company_name |-> data.company_name, position_title |-> data.role,
                     offer_date |-> parse_date_safe(data.date),
                     accepted_or_declined |-> None])
            ELSE offers,
         pinecone |-> pinecone_upsert(pinecone, UpsertNamespace(data.status), UserEmail,
                                      app_id, data),
         app_id |-> app_id,
         created |-> create]

\* the calls of one iteration that can raise an exception
FaultKinds == {"classification", "embedding", "vector", "relational"}

\* the history entry of one email handed to classification; matcher: the vector index
\* was searched for the event
Handed(m, data, app_id, created) ==
    [email |-> m.id, run |-> run.n, event |-> data, app_id |-> app_id, created |-> created,
     fault |-> "none", matcher |-> FALSE]

\* the history entry of an email during whose processing the call of that kind raised
Faulted(m, data, kind) ==
    [Handed(m, data, None, FALSE) EXCEPT !.fault = kind, !.matcher = (kind = "vector")]

\* the exceptions raised so far while emails were processed
FaultsSoFar == Cardinality({i \in DOMAIN handed : handed[i].fault # "none"})

\* main(): the cursor is read, the window is fixed and the messages are listed
\* (run.start_date is last_ts, run.start_time is current_ts)
MainStart ==
    /\ program = "script"
    /\ run.pc = "idle"
    /\ run.n < MaxRuns
    /\ LET u == get_last_update_timestamp(user)
           last_ts == u.email_parse_start_date
           current_ts == min(now, CustomEnd)
       IN  /\ user' = u
           /\ run' = [pc |-> "process", n |-> run.n + 1, start_date |-> last_ts,
                      start_time |-> current_ts, first |-> FALSE, pinecone_index |-> TRUE,
                      fetch_ok |-> TRUE,
                      messages |-> list_gmail_messages(last_ts, current_ts), idx |-> 1]
    /\ UNCHANGED <<program, fm, applications, rejections, interviews, offers, pinecone, now,
                   mailbox, handed>>

\* list_gmail_messages raises HttpError after its retries: main logs it and ends
MainListFails ==
    /\ program = "script"
    /\ run.pc = "idle"
    /\ run.n < MaxRuns
    /\ user' = get_last_update_timestamp(user)
    /\ run' = [pc |-> "idle", n |-> run.n + 1]
    /\ UNCHANGED <<program, fm, applications, rejections, interviews, offers, pinecone, now,
                   mailbox, handed>>

\* one iteration of the loop of process_messages
MainProcessMessage ==
    /\ program = "script"
    /\ run.pc = "process"
    /\ run.idx <= Len(run.messages)
    /\ LET m == run.messages[run.idx]
           data == Heuristic(m)
       IN  IF data.status = NoneOfThese \/ ~RequiredPresent(data)
           THEN /\ handed' = Append(handed, Handed(m, data, None, FALSE))
                /\ UNCHANGED <<applications, rejections, interviews, offers, pinecone>>
           ELSE \E match_id \in search_chain(pinecone, SearchOrder(data.status), 1, UserEmail) :
                    LET after == ScriptApply(data, match_id)
                    IN  /\ applications' = after.applications
                        /\ rejections' = after.rejections
                        /\ interviews' = after.interviews
                        /\ offers' = after.offers
                        /\ pinecone' = after.pinecone
                        /\ handed' = Append(handed,
                                [Handed(m, data, after.app_id, after.created)
                                    EXCEPT !.matcher = data.status # "applied"])
    /\ run' = [run EXCEPT !.idx = @ + 1]
    /\ UNCHANGED <<program, fm, user, now, mailbox>>

\* llm_classify_extract or create_embedding raises after its retries, or index.query
\* or session.commit raises: nothing catches it in process_messages, and main catches
\* HttpError only and after update_parse_timestamp was skipped: the run ends there
MainMessageRaises ==
    /\ program = "script"
    /\ run.pc = "process"
    /\ run.idx <= Len(run.messages)
    /\ FaultsSoFar < MaxFaults
    /\ \E kind \in FaultKinds :
        handed' = Append(handed, Faulted(run.messages[run.idx],
                                         Heuristic(run.messages[run.idx]), kind))
    /\ run' = [pc |-> "idle", n |-> run.n]
    /\ UNCHANGED <<program, fm, applications, rejections, interviews, offers, pinecone, user,
                   now, mailbox>>

\* index.upsert raises in pinecone_upsert, which process_messages calls after the rows of
\* the event were committed: the rows stay, no vector is written, the run ends there
MainUpsertRaises ==
    /\ program = "script"
    /\ run.pc = "process"
    /\ run.idx <= Len(run.messages)
    /\ FaultsSoFar < MaxFaults
    /\ LET m == run.messages[run.idx]
           data == Heuristic(m)
       IN  /\ data.status # NoneOfThese
           /\ RequiredPresent(data)
           /\ \E match_id \in search_chain(pinecone, SearchOrder(data.status), 1, UserEmail) :
                LET after == ScriptApply(data, match_id)
                IN  /\ applications' = after.applications
                    /\ rejections' = after.rejections
                    /\ interviews' = after.interviews
                    /\ offers' = after.offers
                    /\ handed' = Append(handed,
                            [Handed(m, data, after.app_id, after.created)
                                EXCEPT !.fault = "upsert",
                                       !.matcher = data.status # "applied"])
    /\ run' = [pc |-> "idle", n |-> run.n]
    /\ UNCHANGED <<program, fm, pinecone, user, now, mailbox>>

\* a follow-up event without a match: insert_application commits the Application row, then
\* the session.commit() of the Rejection, Interview or Offer row raises: the Application
\* row stays, the other row is not written, the run ends there
MainChildCommitRaises ==
    /\ program = "script"
    /\ run.pc = "process"
    /\ run.idx <= Len(run.messages)
    /\ FaultsSoFar < MaxFaults
    /\ LET m == run.messages[run.idx]
           data == Heuristic(m)
       IN  /\ data.status \in {"rejected", "interview", "offer"}
           /\ RequiredPresent(data)
           /\ None \in search_chain(pinecone, SearchOrder(data.status), 1, UserEmail)
           /\ applications' = insert_application(applications, UserEmail, data)
           /\ handed' = Append(handed,
                    [Handed(m, data, Len(applications) + 1, TRUE)
                        EXCEPT !.fault = "relational", !.matcher = TRUE])
    /\ run' = [pc |-> "idle", n |-> run.n]
    /\ UNCHANGED <<program, fm, rejections, interviews, offers, pinecone, user, now, mailbox>>

\* update_parse_timestamp(session, user_email, current_ts), after process_messages returned
MainFinish ==
    /\ program = "script"
    /\ run.pc = "process"
    /\ run.idx > Len(run.messages)
    /\ user' = [user EXCEPT !.email_parse_start_date = run.start_time]
    /\ run' = [pc |-> "idle", n |-> run.n]
    /\ UNCHANGED <<program, fm, applications, rejections, interviews, offers, pinecone, now,
                   mailbox, handed>>

----------------------------------------------------------------------------
(* app/services: the email parser of the Flask application.                 *)

TopK == 5

\* start_date.strftime('%Y/%m/%d'): the calendar day of a timestamp
FormatDate(t) == Day(t)

\* fetch_new_emails: q = "to:{user} after:{YYYY/MM/DD}", no upper end; sorted by date
fetch_new_emails(start_date) ==
    SelectSeq(mailbox, LAMBDA m : Day(m.internalDate) >= FormatDate(start_date))

\* the orders in which the index can rank the k nearest of a set of records
Rankings(records, k) ==
    LET n == min(k, Cardinality(records))
    IN  {r \in [1..n -> records] : \A i, j \in 1..n : r[i] = r[j] => i = j}

\* query_vector(index, vector, filter={'type': 'application'}, top_k=5): a ranking of
\* the stored application vectors; [] when the query raises
query_vector(index, query_ok) ==
    IF query_ok
    THEN Rankings({index[i] : i \in {j \in DOMAIN index : index[j].type = "application"}},
                  TopK)
    ELSE {<<>>}

\* upsert_vector: insert, or overwrite the vector with the same id
upsert_vector(index, record) ==
    IF \E i \in DOMAIN index : index[i].id = record.id
    THEN [i \in DOMAIN index |-> IF index[i].id = record.id THEN record ELSE index[i]]
    ELSE Append(index, record)

\* generate_and_upsert_application: the index after it succeeded
generate_and_upsert_application(index, application_id, company_name, position_title, application_date) ==
    upsert_vector(index, [id |-> application_id, type |-> "application",
                          application_id |-> application_id, company_name |-> company_name,
                          position_title |-> position_title,
                          application_date |-> application_date])

\* what find_matching_application returns to process_rejection / process_interview /
\* process_offer, which skip the call (None) without an index; vectors_ok: the embedding
\* and the index query succeed
MatchResults(index, pinecone_index, vectors_ok, company_name, position_title) ==
    IF ~pinecone_index
    THEN {None}
    ELSE {find_matching_application(ms, company_name, position_title) :
            ms \in query_vector(index, vectors_ok)}

\* process_user_emails up to the loop: the start time is captured, the user is read or
\* created, the emails are fetched (fetch_new_emails gives [] on an error) and sorted.
\* pinecone_index is what init_pinecone gave start_email_parser.
process_user_emails_start(pinecone_index, fetch_ok) ==
    /\ program = "app"
    /\ run.pc = "idle"
    /\ run.n < MaxRuns
    /\ LET system_start_time == now
           u == IF user.exists THEN user
                ELSE [exists |-> TRUE, email_parse_start_date |-> now,
                      emails_parsed |-> FALSE]
           start_date == u.email_parse_start_date
       IN  /\ user' = u
           /\ run' = [pc |-> "process", n |-> run.n + 1, start_date |-> start_date,
                      start_time |-> system_start_time, first |-> ~u.emails_parsed,
                      pinecone_index |-> pinecone_index, fetch_ok |-> fetch_ok,
                      messages |-> IF fetch_ok THEN fetch_new_emails(start_date) ELSE <<>>,
                      idx |-> 1]
    /\ UNCHANGED <<program, fm, applications, rejections, interviews, offers, pinecone, now,
                   mailbox, handed>>

AppStart == process_user_emails_start(TRUE, TRUE)

\* init_pinecone gave no index, or the Gmail query failed
AppStartDegraded ==
    \E pinecone_index \in BOOLEAN, fetch_ok \in BOOLEAN :
        /\ ~(pinecone_index /\ fetch_ok)
        /\ process_user_emails_start(pinecone_index, fetch_ok)

\* process_email: one email of the loop of process_user_emails, every exception caught.
\* process_application on an 'applied' event with company and role: the Application row
\* is committed, then the vector is upserted if there is an index and nothing fails.
\* process_rejection / process_interview / process_offer: the application is looked up;
\* process_rejection sets attributes that are no columns, Interview(...) and Offer(...)
\* are given keywords that are no columns and raise TypeError, which is logged; none
\* of the three looks at the fields before it calls find_matching_application.
\* vectors_ok: the embedding and vector-index calls of this email succeed.
process_email(vectors_ok) ==
    /\ program = "app"
    /\ run.pc = "process"
    /\ run.idx <= Len(run.messages)
    /\ vectors_ok \/ (run.pinecone_index /\ FaultsSoFar < MaxFaults)
    /\ LET m == run.messages[run.idx]
           data == m.ext
           Entry(app_id, created) ==
                [Handed(m, data, app_id, created) EXCEPT
                    !.fault = IF vectors_ok THEN "none" ELSE "embedding"]
       IN  CASE data.status = NoneOfThese ->
                    /\ vectors_ok
                    /\ handed' = Append(handed, Handed(m, data, None, FALSE))
                    /\ UNCHANGED <<applications, pinecone>>
             [] data.status = "applied" ->
                    IF ~Truthy(data.company_name) \/ ~Truthy(data.role)
                    THEN /\ vectors_ok
                         /\ handed' = Append(handed, Handed(m, data, None, FALSE))
                         /\ UNCHANGED <<applications, pinecone>>
                    ELSE LET apps == insert_application(applications, UserEmail, data)
                             application_id == Len(apps)
                         IN  /\ applications' = apps
                             /\ pinecone' =
                                    IF run.pinecone_index /\ vectors_ok
                                    THEN generate_and_upsert_application(
                                            pinecone, application_id, data.company_name,
                                            data.role, parse_date_safe(data.date))
                                    ELSE pinecone
                             /\ handed' = Append(handed, Entry(application_id, TRUE))
             [] OTHER ->
                    \E application_id \in MatchResults(pinecone, run.pinecone_index,
                                                       vectors_ok, data.company_name,
                                                       data.role) :
                        /\ handed' = Append(handed, [Entry(application_id, FALSE) EXCEPT
                                                        !.matcher = run.pinecone_index])
                        /\ UNCHANGED <<applications, pinecone>>
    /\ run' = [run EXCEPT !.idx = @ + 1]
    /\ UNCHANGED <<program, fm, rejections, interviews, offers, user, now, mailbox>>

AppProcessEmail == process_email(TRUE)

\* the embedding call of this email (or the index call after it) fails
AppProcessEmailDegraded == process_email(FALSE)

\* process_application: db.session.commit() raises; the except clause rolls back and
\* logs, process_email returns and the loop goes on with the next email
AppRelationalWriteFails ==
    /\ program = "app"
    /\ run.pc = "process"
    /\ run.idx <= Len(run.messages)
    /\ FaultsSoFar < MaxFaults
    /\ LET m == run.messages[run.idx]
       IN  /\ m.ext.status = "applied"
           /\ Truthy(m.ext.company_name) /\ Truthy(m.ext.role)
           /\ handed' = Append(handed, Faulted(m, m.ext, "relational"))
    /\ run' = [run EXCEPT !.idx = @ + 1]
    /\ UNCHANGED <<program, fm, applications, rejections, interviews, offers, pinecone, user,
                   now, mailbox>>

\* an end of run that writes the start date whether or not an email was fetched
AppFinishAlways ==
    /\ program = "app"
    /\ run.pc = "process"
    /\ run.idx > Len(run.messages)
    /\ user' = IF run.first
               THEN [user EXCEPT !.emails_parsed = TRUE,
                                 !.email_parse_start_date = run.start_time]
               ELSE [user EXCEPT !.email_parse_start_date = run.start_time]
    /\ run' = [pc |-> "idle", n |-> run.n]
    /\ UNCHANGED <<program, fm, applications, rejections, interviews, offers, pinecone, now,
                   mailbox, handed>>

\* an end of run that writes the time of the write instead of the captured start time
AppFinishAtNow ==
    /\ program = "app"
    /\ run.pc = "process"
    /\ run.idx > Len(run.messages)
    /\ user' = IF run.first
               THEN [user EXCEPT !.emails_parsed = TRUE,
                                 !.email_parse_start_date = now]
               ELSE IF run.messages # <<>>
                    THEN [user EXCEPT !.email_parse_start_date = now]
                    ELSE user
    /\ run' = [pc |-> "idle", n |-> run.n]
    /\ UNCHANGED <<program, fm, applications, rejections, interviews, offers, pinecone, now,
                   mailbox, handed>>

\* process_user_emails after the loop: the first run sets emails_parsed and the start
\* date, a later run sets the start date if it fetched any email
AppFinish ==
    /\ program = "app"
    /\ run.pc = "process"
    /\ run.idx > Len(run.messages)
    /\ user' = IF run.first
               THEN [user EXCEPT !.emails_parsed = TRUE,
                                 !.email_parse_start_date = run.start_time]
               ELSE IF run.messages # <<>>
                    THEN [user EXCEPT !.email_parse_start_date = run.start_time]
                    ELSE user
    /\ run' = [pc |-> "idle", n |-> run.n]
    /\ UNCHANGED <<program, fm, applications, rejections, interviews, offers, pinecone, now,
                   mailbox, handed>>

\* PUT /user/email-parse-start-date: any date, stored as that day's midnight
update_email_parse_start_date ==
    /\ program = "app"
    /\ user.exists
    /\ \E d \in 0..Day(MaxTime) :
        /\ user.email_parse_start_date # d * TicksPerDay
        /\ user' = [user EXCEPT !.email_parse_start_date = d * TicksPerDay]
    /\ UNCHANGED <<program, fm, applications, rejections, interviews, offers, pinecone, now,
                   mailbox, run, handed>>

\* POST /users: the row with the column defaults
create_user ==
    /\ program = "app"
    /\ ~user.exists
    /\ user' = [exists |-> TRUE, email_parse_start_date |-> now, emails_parsed |-> FALSE]
    /\ UNCHANGED <<program, fm, applications, rejections, interviews, offers, pinecone, now,
                   mailbox, run, handed>>

----------------------------------------------------------------------------
(* The environment and the specifications.                                  *)

Tick ==
    /\ program # "matcher"
    /\ now < MaxTime
    /\ now' = now + 1
    /\ UNCHANGED <<program, fm, applications, rejections, interviews, offers, pinecone, user,
                   mailbox, run, handed>>

Deliver ==
    /\ program # "matcher"
    /\ Len(mailbox) < MaxEmails
    /\ \E c \in MailContents :
        mailbox' = Append(mailbox, [id |-> Len(mailbox) + 1, internalDate |-> now,
                                    subject |-> c.subject, ext |-> c.ext])
    /\ UNCHANGED <<program, fm, applications, rejections, interviews, offers, pinecone, user,
                   now, run, handed>>

\* the emails of the mailboxes of SpecRoutes, SpecFaults and SpecStale: a plain subject, events
\* of the first date
CoreContents ==
    {c \in MailContents : c.subject = PlainSubject /\ c.ext.date \in {None, 1}}

DeliverCore ==
    /\ program # "matcher"
    /\ Len(mailbox) < MaxEmails
    /\ \E c \in CoreContents :
        mailbox' = Append(mailbox, [id |-> Len(mailbox) + 1, internalDate |-> now,
                                    subject |-> c.subject, ext |-> c.ext])
    /\ UNCHANGED <<program, fm, applications, rejections, interviews, offers, pinecone, user,
                   now, run, handed>>

Init ==
    /\ program \in {"script", "app"}
    /\ fm = IdleCall
    /\ StoresEmpty
    /\ user = NoUser
    /\ now = 0
    /\ mailbox = <<>>
    /\ run = IdleRun
    /\ handed = <<>>

Next ==
    \/ Tick
    \/ Deliver
    \/ MainStart
    \/ MainProcessMessage
    \/ MainFinish
    \/ AppStart
    \/ AppProcessEmail
    \/ AppFinish

Spec == Init /\ [][Next]_vars

\* the Flask application with its routes
InitApp == Init /\ program = "app"

NextRoutes ==
    \/ Tick
    \/ DeliverCore
    \/ AppStart
    \/ AppProcessEmail
    \/ AppFinish
    \/ update_email_parse_start_date
    \/ create_user

SpecRoutes == InitApp /\ [][NextRoutes]_vars

\* both programs with failing collaborators
NextFaults ==
    \/ Tick
    \/ DeliverCore
    \/ MainStart
    \/ MainProcessMessage
    \/ MainFinish
    \/ AppStart
    \/ AppProcessEmail
    \/ AppFinish
    \/ MainListFails
    \/ MainMessageRaises
    \/ MainUpsertRaises
    \/ MainChildCommitRaises
    \/ AppStartDegraded
    \/ AppProcessEmailDegraded
    \/ AppRelationalWriteFails

SpecFaults == Init /\ [][NextFaults]_vars

----------------------------------------------------------------------------
(* app/services/email_parser.py: one job of start_email_parser over all     *)
(* users. Here `user` maps each address to its row, and the run of one user *)
(* (modelled email by email above) is one step; `handed` logs the calls of  *)
(* process_user_emails.                                                     *)

JobUsers == {"a@example.com", "b@example.com", "c@example.com"}

\* the orders in which User.query.all() can return the rows
QueryAll(rows) ==
    LET present == {a \in JobUsers : rows[a].exists}
        n == Cardinality(present)
    IN  {s \in [1..n -> present] : \A i, j \in 1..n : s[i] = s[j] => i = j}

InitJob ==
    /\ program = "job"
    /\ fm = IdleCall
    /\ StoresEmpty
    /\ now \in 0..MaxTime
    /\ user \in [JobUsers -> {NoUser} \cup [exists : {TRUE}, email_parse_start_date : {Epoch},
                                            emails_parsed : BOOLEAN]]
    /\ mailbox = <<>>
    /\ run = IdleRun
    /\ handed = <<>>

\* start_email_parser(None): the Gmail service and the index are initialised and the
\* users are read
JobStart ==
    /\ program = "job"
    /\ run.pc = "idle"
    /\ \E users \in QueryAll(user) :
        run' = [pc |-> "users", n |-> run.n + 1, users |-> users, idx |-> 1]
    /\ UNCHANGED <<program, fm, applications, rejections, interviews, offers, pinecone, user,
                   now, mailbox, handed>>

\* process_user_emails returns for the user at the cursor: a first run sets emails_parsed
\* and the start date, a later run sets the start date if it fetched any email
JobProcessUser ==
    /\ program = "job"
    /\ run.pc = "users"
    /\ run.idx <= Len(run.users)
    /\ LET a == run.users[run.idx]
       IN  /\ \E fetched \in BOOLEAN :
                user' = [user EXCEPT ![a] =
                            IF ~@.emails_parsed
                            THEN [@ EXCEPT !.emails_parsed = TRUE,
                                           !.email_parse_start_date = now]
                            ELSE IF fetched THEN [@ EXCEPT !.email_parse_start_date = now]
                                 ELSE @]
           /\ handed' = Append(handed, [user |-> a, raised |-> FALSE])
    /\ run' = [run EXCEPT !.idx = @ + 1]
    /\ UNCHANGED <<program, fm, applications, rejections, interviews, offers, pinecone, now,
                   mailbox>>

\* process_user_emails raises for the user at the cursor (emails.sort on dates it cannot
\* compare, or a query or commit of the session fails): the loop over the users has no
\* try, the except clause of start_email_parser logs the error and the job is over
JobUserRaises ==
    /\ program = "job"
    /\ run.pc = "users"
    /\ run.idx <= Len(run.users)
    /\ handed' = Append(handed, [user |-> run.users[run.idx], raised |-> TRUE])
    /\ run' = [run EXCEPT !.pc = "done"]
    /\ UNCHANGED <<program, fm, applications, rejections, interviews, offers, pinecone, user,
                   now, mailbox>>

\* the loop over the users is through: "Email parser job completed successfully"
JobEnd ==
    /\ program = "job"
    /\ run.pc = "users"
    /\ run.idx > Len(run.users)
    /\ run' = [run EXCEPT !.pc = "done"]
    /\ UNCHANGED <<program, fm, applications, rejections, interviews, offers, pinecone, user,
                   now, mailbox, handed>>

NextJob ==
    \/ JobStart
    \/ JobProcessUser
    \/ JobUserRaises
    \/ JobEnd

SpecJob == InitJob /\ [][NextJob]_vars

----------------------------------------------------------------------------
(* Both pipelines under their schedulers: a run that can start does start   *)
(* (the interval job of the Flask application, the repeated invocation of   *)
(* the script), and a run that has started goes through its loop.           *)

\* the emails of this mailbox: an application confirmation and an unrelated email
FairContents ==
    [subject : {PlainSubject},
     ext : {Event("applied", Acme, SWE, 1), Event(NoneOfThese, EmptyText, EmptyText, None)}]

DeliverFair ==
    /\ Len(mailbox) < MaxEmails
    /\ \E c \in FairContents :
        mailbox' = Append(mailbox, [id |-> Len(mailbox) + 1, internalDate |-> now,
                                    subject |-> c.subject, ext |-> c.ext])
    /\ UNCHANGED <<program, fm, applications, rejections, interviews, offers, pinecone, user,
                   now, run, handed>>

NextFair ==
    \/ Tick
    \/ DeliverFair
    \/ MainStart
    \/ MainProcessMessage
    \/ MainFinish
    \/ AppStart
    \/ AppProcessEmail
    \/ AppFinish

Fairness ==
    /\ WF_vars(MainStart) /\ WF_vars(MainProcessMessage) /\ WF_vars(MainFinish)
    /\ WF_vars(AppStart) /\ WF_vars(AppProcessEmail) /\ WF_vars(AppFinish)

SpecFair == Init /\ [][NextFair]_vars /\ Fairness

----------------------------------------------------------------------------
(* Main/main.py: one call of a function wrapped by exponential_backoff_retry. *)
(* Here `fm` is the call: outcomes[k] tells whether the k-th invocation of   *)
(* the wrapped function succeeds, result is the number of the invocation     *)
(* whose value was returned or whose exception was raised.                   *)

MaxAttempts == 5    \* max_attempts is drawn from 1..MaxAttempts
BaseDelay == 10     \* base_delay = 1.0, in tenths of a second

\* a test that gives up one failure later
GivesUpLate(attempt, max_attempts) == attempt > max_attempts

\* if attempt >= max_attempts: raise
GivesUp(attempt, max_attempts) == attempt >= max_attempts

\* delay = base_delay * (2 ** (attempt - 1))
Delay(attempt) == BaseDelay * 2 ^ (attempt - 1)

\* jitter = random.uniform(0, delay * 0.1): its two ends
Jitters(delay) == {0, delay \div 10}

InitRetry ==
    /\ program = "retry"
    /\ fm \in [pc : {"call"}, max_attempts : 1..MaxAttempts,
               outcomes : [1..MaxAttempts + 1 -> BOOLEAN], attempt : {0}, invocations : {0},
               slept : {0}, result : {None}]
    /\ StoresEmpty
    /\ user = NoUser
    /\ now = 0
    /\ mailbox = <<>>
    /\ run = IdleRun
    /\ handed = <<>>

\* one iteration of the loop of wrapper: the function is invoked; its value is returned,
\* or the failure is counted and either re-raised or slept on
wrapper ==
    /\ program = "retry"
    /\ fm.pc = "call"
    /\ LET k == fm.invocations + 1
           attempt == fm.attempt + 1
       IN  IF fm.outcomes[k]
           THEN fm' = [fm EXCEPT !.pc = "returned", !.invocations = k, !.result = k]
           ELSE IF GivesUp(attempt, fm.max_attempts)
                THEN fm' = [fm EXCEPT !.pc = "raised", !.invocations = k,
                                      !.attempt = attempt, !.result = k]
                ELSE \E jitter \in Jitters(Delay(attempt)) :
                        fm' = [fm EXCEPT !.invocations = k, !.attempt = attempt,
                                         !.slept = @ + Delay(attempt) + jitter]
    /\ UNCHANGED <<program, applications, rejections, interviews, offers, pinecone, user,
                   now, mailbox, run, handed>>

NextRetry == wrapper

\* the loop of wrapper runs on until it returns or raises
SpecRetry == InitRetry /\ [][NextRetry]_vars /\ WF_vars(wrapper)

----------------------------------------------------------------------------
(* app/services/db_service.py: the get-or-create functions on the tables.   *)
(* Here `fm` is the last call and what it returned.                         *)

DbCompanies == {Acme, Globex}
DbRoles == {SWE}

\* the callers of db_service: each works on Applications and one of the tables that
\* reference them
DbPrograms == {"db", "db_rejections", "db_interviews"}

InitDb ==
    /\ program = "db"
    /\ fm = IdleCall
    /\ StoresEmpty
    /\ user = NoUser
    /\ now = 0
    /\ mailbox = <<>>
    /\ run = IdleRun
    /\ handed = <<>>

\* create_application: the row of the same user, company and position if there is one,
\* else a new row
create_application ==
    /\ program \in DbPrograms
    /\ \E company_name \in DbCompanies, position_title \in DbRoles, application_date \in 1..MaxDate :
        LET existing == {i \in DOMAIN applications :
                            /\ applications[i].user_email_id = UserEmail
                            /\ applications[i].company_name = company_name
                            /\ applications[i].position_title = position_title}
            data == [company_name |-> company_name, role |-> position_title,
                     date |-> application_date]
        IN  /\ applications' = IF existing # {} THEN applications
                               ELSE insert_application(applications, UserEmail, data)
            /\ fm' = [pc |-> "done", fn |-> "create_application",
                      company_name |-> company_name, position_title |-> position_title,
                      result |-> IF existing # {} THEN CHOOSE i \in existing : TRUE
                                 ELSE Len(applications) + 1]
    /\ UNCHANGED <<program, rejections, interviews, offers, pinecone, user, now, mailbox,
                   run, handed>>

\* an insert that replaces the Offer row of the application by the new one
insert_offer_overwriting(rows, row) ==
    IF \E i \in DOMAIN rows : rows[i].application_id = row.application_id
    THEN [i \in DOMAIN rows |-> IF rows[i].application_id = row.application_id
                                THEN row ELSE rows[i]]
    ELSE Append(rows, row)

\* create_offer on the table: the Offer row of the application is left as it is if
\* there is one, else the new row is added
insert_offer(rows, row) ==
    IF \E i \in DOMAIN rows : rows[i].application_id = row.application_id
    THEN rows
    ELSE Append(rows, row)

\* create_offer: the commit of a new row fails, and is rolled back, when a row has its
\* primary key (company_name, position_title), and when the application does not exist
\* and the database enforces the foreign key
create_offer ==
    /\ program = "db"
    /\ \E application_id \in 1..MaxAppId, company_name \in DbCompanies,
          position_title \in DbRoles, offer_date \in 1..MaxDate,
          accepted_or_declined \in BOOLEAN, foreign_keys \in BOOLEAN :
        LET row == [application_id |-> application_id, company_name |-> company_name,
                    position_title |-> position_title, offer_date |-> offer_date,
                    accepted_or_declined |-> accepted_or_declined]
            existing == \E i \in DOMAIN offers : offers[i].application_id = application_id
            rejected == \/ \E i \in DOMAIN offers : /\ offers[i].company_name = company_name
                                                    /\ offers[i].position_title = position_title
                        \/ foreign_keys /\ application_id \notin DOMAIN applications
        IN  /\ offers' = IF ~existing /\ rejected THEN offers ELSE insert_offer(offers, row)
            /\ fm' = [pc |-> "done", fn |-> "create_offer", application_id |-> application_id,
                      accepted_or_declined |-> accepted_or_declined,
                      result |-> IF ~existing /\ rejected THEN None ELSE application_id]
    /\ UNCHANGED <<program, applications, rejections, interviews, pinecone, user, now,
                   mailbox, run, handed>>

\* an insert that replaces the Rejection row of the application, as session.merge does
insert_rejection_merging(rows, row) ==
    {r \in rows : r.application_id # row.application_id} \cup {row}

\* create_rejection on the table: the Rejection row of the application is left as it
\* is if there is one, else the new row is added
insert_rejection(rows, row) ==
    IF \E r \in rows : r.application_id = row.application_id
    THEN rows
    ELSE rows \cup {row}

\* create_rejection: the commit of a new row fails, and is rolled back, when the
\* application does not exist and the database enforces the foreign key
create_rejection ==
    /\ program = "db_rejections"
    /\ \E application_id \in 1..MaxAppId, company_name \in DbCompanies,
          position_title \in DbRoles, rejection_date \in 1..MaxDate, foreign_keys \in BOOLEAN :
        LET row == [application_id |-> application_id, company_name |-> company_name,
                    position_title |-> position_title, rejection_date |-> rejection_date]
            existing == \E r \in rejections : r.application_id = application_id
            rejected == foreign_keys /\ application_id \notin DOMAIN applications
        IN  /\ rejections' = IF ~existing /\ rejected THEN rejections
                              ELSE insert_rejection(rejections, row)
            /\ fm' = [pc |-> "done", fn |-> "create_rejection",
                      application_id |-> application_id, rejection_date |-> rejection_date,
                      result |-> IF ~existing /\ rejected THEN None ELSE application_id]
    /\ UNCHANGED <<program, applications, interviews, offers, pinecone, user, now, mailbox,
                   run, handed>>

DbRounds == {OA}

\* create_interview: the row of the same application and round if there is one, else a
\* new row; the commit of a new row fails, and is rolled back, when a row has its
\* primary key (company_name, position_title, round), and when the application does
\* not exist and the database enforces the foreign key
create_interview ==
    /\ program = "db_interviews"
    /\ \E application_id \in 1..MaxAppId, company_name \in DbCompanies,
          position_title \in DbRoles, round_name \in DbRounds, completed \in BOOLEAN,
          foreign_keys \in BOOLEAN :
        LET row == [application_id |-> application_id, company_name |-> company_name,
                    position_title |-> position_title, round |-> round_name,
                    completed |-> completed]
            existing == {i \in DOMAIN interviews :
                            /\ interviews[i].application_id = application_id
                            /\ interviews[i].round = round_name}
            rejected == \/ \E i \in DOMAIN interviews :
                                /\ interviews[i].company_name = company_name
                                /\ interviews[i].position_title = position_title
                                /\ interviews[i].round = round_name
                        \/ foreign_keys /\ application_id \notin DOMAIN applications
        IN  /\ interviews' = IF existing # {} \/ rejected THEN interviews
                              ELSE Append(interviews, row)
            /\ fm' = [pc |-> "done", fn |-> "create_interview",
                      application_id |-> application_id, round |-> round_name,
                      completed |-> completed,
                      result |-> IF existing # {} THEN CHOOSE i \in existing : TRUE
                                 ELSE IF rejected THEN None ELSE Len(interviews) + 1]
    /\ UNCHANGED <<program, applications, rejections, offers, pinecone, user, now, mailbox,
                   run, handed>>

NextDb ==
    \/ create_application
    \/ create_offer

SpecDb == InitDb /\ [][NextDb]_vars

----------------------------------------------------------------------------
(* Both pipelines on a vector index that outlived its relational store: the *)
(* index holds the vector of an application whose row no longer exists.     *)

StaleId == MaxEmails + 1

InitStale ==
    /\ program \in {"script", "app"}
    /\ fm = IdleCall
    /\ applications = <<>>
    /\ rejections = {}
    /\ interviews = <<>>
    /\ offers = <<>>
    /\ pinecone = IF program = "script"
                  THEN pinecone_upsert(<<>>, "applications", UserEmail, StaleId,
                                       Event("applied", Acme, SWE, 1))
                  ELSE generate_and_upsert_application(<<>>, StaleId, Acme, SWE, 1)
    /\ user = NoUser
    /\ now = 0
    /\ mailbox = <<>>
    /\ run = IdleRun
    /\ handed = <<>>

\* process_messages takes match_id from the index as app_id without reading the
\* Application row. MainProcessMessage is the iteration on a database that does not
\* enforce foreign keys; on one that does, session.commit() of the Rejection, Interview
\* or Offer raises IntegrityError, nothing catches it and the run ends there
MainForeignKeyRaises ==
    /\ program = "script"
    /\ run.pc = "process"
    /\ run.idx <= Len(run.messages)
    /\ LET m == run.messages[run.idx]
           data == Heuristic(m)
       IN  /\ data.status \in {"rejected", "interview", "offer"}
           /\ RequiredPresent(data)
           /\ \E match_id \in search_chain(pinecone, SearchOrder(data.status), 1, UserEmail) :
                /\ match_id # None
                /\ match_id \notin DOMAIN applications
                /\ handed' = Append(handed, [Faulted(m, data, "relational") EXCEPT
                                                !.app_id = match_id, !.matcher = TRUE])
    /\ run' = [pc |-> "idle", n |-> run.n]
    /\ UNCHANGED <<program, fm, applications, rejections, interviews, offers, pinecone, user,
                   now, mailbox>>

NextStale ==
    \/ Tick
    \/ DeliverCore
    \/ MainStart
    \/ MainProcessMessage
    \/ MainFinish
    \/ AppStart
    \/ AppProcessEmail
    \/ AppFinish
    \/ MainForeignKeyRaises

SpecStale == InitStale /\ [][NextStale]_vars

----------------------------------------------------------------------------
(* app/services/email_parser.py: runs of process_user_emails for one user   *)
(* that overlap (the scheduler allows max_instances = 3 of the job, and     *)
(* POST /parse-emails starts one more). Here `run` maps each run to its     *)
(* record; a run starts while the run before it is in its loop.             *)

MaxOverlap == 2     \* runs that overlap

Runs == 1..MaxOverlap

InitOverlap ==
    /\ program = "overlap"
    /\ fm = IdleCall
    /\ StoresEmpty
    /\ user = NoUser
    /\ now = 0
    /\ mailbox = <<>>
    /\ run = [r \in Runs |-> IdleRun]
    /\ handed = <<>>

\* process_user_emails up to its loop, in the thread of run r
OverlapStart(r) ==
    /\ program = "overlap"
    /\ run[r].pc = "idle"
    /\ r > 1 => run[r - 1].pc = "process"
    /\ LET system_start_time == now
           u == IF user.exists THEN user
                ELSE [exists |-> TRUE, email_parse_start_date |-> now,
                      emails_parsed |-> FALSE]
           start_date == u.email_parse_start_date
       IN  /\ user' = u
           /\ run' = [run EXCEPT ![r] =
                        [pc |-> "process", n |-> r, start_date |-> start_date,
                         start_time |-> system_start_time, first |-> ~u.emails_parsed,
                         pinecone_index |-> TRUE, fetch_ok |-> TRUE,
                         messages |-> fetch_new_emails(start_date), idx |-> 1]]
    /\ UNCHANGED <<program, fm, applications, rejections, interviews, offers, pinecone, now,
                   mailbox, handed>>

\* process_email on the email at the cursor of run r
OverlapProcessEmail(r) ==
    /\ program = "overlap"
    /\ run[r].pc = "process"
    /\ run[r].idx <= Len(run[r].messages)
    /\ LET m == run[r].messages[run[r].idx]
           data == m.ext
           Entry(app_id, created, matcher) ==
                [email |-> m.id, run |-> r, event |-> data, app_id |-> app_id,
                 created |-> created, fault |-> "none", matcher |-> matcher]
       IN  CASE data.status = NoneOfThese ->
                    /\ handed' = Append(handed, Entry(None, FALSE, FALSE))
                    /\ UNCHANGED <<applications, pinecone>>
             [] data.status = "applied" ->
                    IF ~Truthy(data.company_name) \/ ~Truthy(data.role)
                    THEN /\ handed' = Append(handed, Entry(None, FALSE, FALSE))
                         /\ UNCHANGED <<applications, pinecone>>
                    ELSE LET apps == insert_application(applications, UserEmail, data)
                             application_id == Len(apps)
                         IN  /\ applications' = apps
                             /\ pinecone' = generate_and_upsert_application(
                                                pinecone, application_id, data.company_name,
                                                data.role, parse_date_safe(data.date))
                             /\ handed' = Append(handed, Entry(application_id, TRUE, FALSE))
             [] OTHER ->
                    \E application_id \in MatchResults(pinecone, TRUE, TRUE,
                                                       data.company_name, data.role) :
                        /\ handed' = Append(handed, Entry(application_id, FALSE, TRUE))
                        /\ UNCHANGED <<applications, pinecone>>
    /\ run' = [run EXCEPT ![r].idx = @ + 1]
    /\ UNCHANGED <<program, fm, rejections, interviews, offers, user, now, mailbox>>

\* process_user_emails after the loop, in the thread of run r: the values the run
\* captured when it started are committed
OverlapFinish(r) ==
    /\ program = "overlap"
    /\ run[r].pc = "process"
    /\ run[r].idx > Len(run[r].messages)
    /\ user' = IF run[r].first
               THEN [user EXCEPT !.emails_parsed = TRUE,
                                 !.email_parse_start_date = run[r].start_time]
               ELSE IF run[r].messages # <<>>
                    THEN [user EXCEPT !.email_parse_start_date = run[r].start_time]
                    ELSE user
    /\ run' = [run EXCEPT ![r].pc = "done"]
    /\ UNCHANGED <<program, fm, applications, rejections, interviews, offers, pinecone, now,
                   mailbox, handed>>

NextOverlap ==
    \/ Tick
    \/ DeliverFair
    \/ \E r \in Runs : OverlapStart(r)
    \/ \E r \in Runs : OverlapProcessEmail(r)
    \/ \E r \in Runs : OverlapFinish(r)

SpecOverlap == InitOverlap /\ [][NextOverlap]_vars

----------------------------------------------------------------------------
(* app/services/db_service.py: the four create functions. No create function *)
(* reads a table that another one writes, except Applications, so a behaviour *)
(* calls create_application and the create function of one other table.       *)

InitCreate ==
    /\ program \in DbPrograms
    /\ fm = IdleCall
    /\ StoresEmpty
    /\ user = NoUser
    /\ now = 0
    /\ mailbox = <<>>
    /\ run = IdleRun
    /\ handed = <<>>

NextCreate ==
    \/ create_application
    \/ create_offer
    \/ create_rejection
    \/ create_interview

SpecCreate == InitCreate /\ [][NextCreate]_vars
----------------------------------------------------------------------------
\* the exact value of a score is at least n/d
ExactGE(score, n, d) == score[1] * d >= n * score[2]

\* C1: a finished call whose query was embedded returns an application id exactly
\* when some returned candidate has a combined score
\* 0.6 * company_similarity + 0.4 * role_similarity of at least 0.70
\* (a score of exactly 0.70 is accepted, a lower one is rejected).
C1_ThresholdAtLeast ==
    (fm.pc = "done" /\ fm.embedding_ok) =>
        ((fm.result # None) <=>
            \E i \in 1..Len(fm.matches) :
                ExactGE(MatchScore(fm.company_name, fm.position_title, fm.matches[i]), 7, 10))

\* C2: no email is handed to the classify / match / reconcile step in more than one
\* run: two history entries of the same email belong to the same run.
C2_AtMostOnceAcrossRuns ==
    \A i, j \in DOMAIN handed :
        handed[i].email = handed[j].email => handed[i].run = handed[j].run

\* the step that ends a run
RunEnds == run.pc = "process" /\ run'.pc = "idle"

\* C3: the watermark a run leaves is at least the watermark the run read when it
\* started, and at most the 'now' the run captured when it started.
C3_WatermarkMonotone ==
    [][RunEnds =>
        /\ user'.email_parse_start_date >= run.start_date
        /\ user'.email_parse_start_date <= run.start_time]_vars

\* the history entries of events of a status that resolved to an application
Resolved(status, application_id) ==
    {i \in DOMAIN handed : /\ handed[i].event.status = status
                           /\ handed[i].app_id = application_id}

Latest(S) == CHOOSE i \in S : \A j \in S : j <= i

ApplicationIds == 1..MaxEmails

\* C4: once 'rejected' events resolved to an application, there is exactly one
\* Rejection row of that application, and its date, company and role are those of
\* the most recently processed of these events.
C4_RejectionUpsert ==
    \A a \in ApplicationIds :
        Resolved("rejected", a) # {} =>
            LET e == handed[Latest(Resolved("rejected", a))].event
                rows == {r \in rejections : r.application_id = a}
            IN  /\ Cardinality(rows) = 1
                /\ \A r \in rows : /\ r.rejection_date = e.date
                                   /\ r.company_name = e.company_name
                                   /\ r.position_title = e.role

\* C5: once 'offer' events resolved to an application, there is exactly one Offer row
\* of that application, and its date, company and role are those of the most recently
\* processed of these events.
C5_OfferUpsert ==
    \A a \in ApplicationIds :
        Resolved("offer", a) # {} =>
            LET e == handed[Latest(Resolved("offer", a))].event
                rows == {i \in DOMAIN offers : offers[i].application_id = a}
            IN  /\ Cardinality(rows) = 1
                /\ \A i \in rows : /\ offers[i].offer_date = e.date
                                   /\ offers[i].company_name = e.company_name
                                   /\ offers[i].position_title = e.role

\* the history entries of 'interview' events of a company, role and round label
SameRound(e) ==
    {i \in DOMAIN handed : /\ handed[i].event.status = "interview"
                           /\ handed[i].event.company_name = e.company_name
                           /\ handed[i].event.role = e.role
                           /\ handed[i].event.interview_round = e.interview_round}

\* C6: when an 'interview' event created an Interview row and a later 'interview'
\* event of the same company, role and round label was processed, there is still one
\* Application and one Interview row of that (application_id, round), and the row
\* carries the date of the later event.
C6_InterviewRoundUpsert ==
    \A i, j \in DOMAIN handed :
        (/\ i < j
         /\ handed[i].event.status = "interview"
         /\ j \in SameRound(handed[i].event)
         /\ \E k \in DOMAIN interviews : interviews[k].application_id = handed[i].app_id)
        => LET e == handed[Latest(SameRound(handed[i].event))].event
               rows == {k \in DOMAIN interviews :
                            /\ interviews[k].application_id = handed[i].app_id
                            /\ interviews[k].round = e.interview_round}
           IN  /\ Cardinality({handed[k].app_id : k \in SameRound(handed[i].event)}) = 1
               /\ Cardinality(rows) = 1
               /\ \A k \in rows : interviews[k].invitation_date = e.date

\* the events processed so far are exactly these, in this order, from empty stores
Processed(events) ==
    /\ Len(handed) = Len(events)
    /\ \A i \in DOMAIN handed : handed[i].event = events[i]

AppliedAcmeSWE == Event("applied", Acme, SWE, 1)
InterviewAcmeSWE == Event("interview", Acme, SWE, 1)
OfferAcmeSoftwareEngineer == Event("offer", Acme, SoftwareEngineer, 1)

\* C7: after an 'applied' event and then an 'interview' event of the same new
\* application there is exactly one Application row, and an Interview row that
\* references its id.
C7_AppliedThenInterview ==
    Processed(<<AppliedAcmeSWE, InterviewAcmeSWE>>) =>
        /\ Len(applications) = 1
        /\ Len(interviews) = 1
        /\ interviews[1].application_id = applications[1].application_id

\* C8: after an 'interview' event and then an 'applied' event of the same new
\* application there is exactly one Application row, created by the interview event;
\* the applied event created none.
C8_InterviewThenApplied ==
    Processed(<<InterviewAcmeSWE, AppliedAcmeSWE>>) =>
        /\ Len(applications) = 1
        /\ handed[1].created
        /\ ~handed[2].created

\* C9: after applied(Acme, SWE), interview(Acme, SWE, OA) and
\* offer(Acme, Software Engineer) there is one Application, one Interview and one
\* Offer row, all three with the same application_id.
C9_EndToEnd ==
    Processed(<<AppliedAcmeSWE, InterviewAcmeSWE, OfferAcmeSoftwareEngineer>>) =>
        /\ Len(applications) = 1
        /\ Len(interviews) = 1
        /\ Len(offers) = 1
        /\ interviews[1].application_id = applications[1].application_id
        /\ offers[1].application_id = applications[1].application_id

\* the classifier's answer for an email that is not job related
NotJobRelated == Event(NoneOfThese, EmptyText, EmptyText, None)

\* the step hands the email at the cursor of the run to classification
HandsEmail == handed' # handed

\* C10: a step that processes an email whose classification is 'not job related'
\* ({"status": "None of These"} in process_messages, None in process_email) writes
\* no relational row and no vector, whatever the subject of the email.
C10_NotJobRelatedWritesNothing ==
    [][(HandsEmail /\ run.messages[run.idx].ext = NotJobRelated) =>
        UNCHANGED <<applications, rejections, interviews, offers, pinecone>>]_vars

\* an email with a 'thank you for applying' subject that the classifier answered
\* 'not job related' went through the heuristic fallback of process_messages
C10_Witness ==
    \E i \in DOMAIN handed :
        /\ program = "script"
        /\ mailbox[handed[i].email].ext = NotJobRelated
        /\ mailbox[handed[i].email].subject = ThanksSubject
        /\ handed[i].event.status = "applied"

\* the history entry the step appends
NewEntry == handed'[Len(handed')]

\* C11: when processing an email raises an exception, the exception is caught at the
\* email boundary: the run goes on with the next fetched email instead of ending.
C11_FailureIsolation ==
    [][(HandsEmail /\ NewEntry.fault # "none") =>
        (run'.pc = "process" /\ run'.idx = run.idx + 1)]_vars

\* C12: the watermark of an existing user changes only in the step that ends a run,
\* after every fetched email of the run was attempted, and the value written is the
\* one the run captured when it started; the captured value does not change during
\* the run and no email is attempted in a step that writes the watermark.
C12_WatermarkWriteOrdering ==
    [][/\ (user.exists /\ user'.email_parse_start_date # user.email_parse_start_date) =>
            /\ RunEnds
            /\ run.idx > Len(run.messages)
            /\ user'.email_parse_start_date = run.start_time
            /\ ~HandsEmail
       /\ (run.pc = "process" /\ run'.pc = "process") =>
            /\ run'.start_time = run.start_time
            /\ run'.messages = run.messages]_vars

\* a run attempted two emails and then wrote the value it captured at its start,
\* which the clock has passed since
C12_Witness ==
    /\ run.pc = "idle"
    /\ Len(handed) >= 2
    /\ handed[1].run = handed[2].run
    /\ user.exists
    /\ user.email_parse_start_date > 0
    /\ now > user.email_parse_start_date

\* a relational write failed while an email of the run that ends was reconciled
RelationalWriteFailed ==
    \E i \in DOMAIN handed' : handed'[i].run = run.n /\ handed'[i].fault = "relational"

\* C13: a run in which a relational write failed ends without advancing the
\* watermark of the user.
C13_RelationalFailureFatal ==
    [][(RunEnds /\ RelationalWriteFailed) =>
        user'.email_parse_start_date = user.email_parse_start_date]_vars

\* the step ends a run whose Gmail listing failed
FetchFailedRunEnds ==
    \/ RunEnds /\ ~run.fetch_ok
    \/ run.pc = "idle" /\ run'.pc = "idle" /\ run'.n = run.n + 1

\* C14: a run whose email fetch failed leaves the watermark and the first-sync flag
\* of the user as they were.
C14_FetchFailureKeepsWatermark ==
    [][(FetchFailedRunEnds /\ user.exists) =>
        /\ user'.email_parse_start_date = user.email_parse_start_date
        /\ user'.emails_parsed = user.emails_parsed]_vars

\* the owner of an application (user_email_id): application 1 is the requesting
\* user's, the others are another user's
OtherUserEmail == "other@example.com"
OwnerOf(application_id) == IF application_id = 1 THEN UserEmail ELSE OtherUserEmail

\* C15: the application id the matcher returns for an event of a user belongs to
\* that user.
C15_UserIsolation ==
    (fm.pc = "done" /\ fm.result # None) => OwnerOf(fm.result) = UserEmail

\* the event of the email at the cursor of the run, as the reconciler sees it
CursorEvent ==
    IF program = "script" THEN Heuristic(run.messages[run.idx]) ELSE run.messages[run.idx].ext

FollowUps == {"interview", "rejected", "offer"}

\* the role text a stored vector carries
CandidateRole(record) == IF program = "script" THEN record.role ELSE record.position_title

\* the combined lexical score of an event against a stored vector
CandidateScore(e, record) ==
    combined_score(similarity(lower(e.company_name), lower(record.company_name)),
                   similarity(lower(e.role), lower(CandidateRole(record))))

\* C16: when a follow-up event is resolved to an existing application, some stored
\* candidate of that application has a combined lexical score of at least the
\* acceptance threshold 0.70 against the event.
C16_ThresholdGating ==
    [][(/\ HandsEmail
        /\ NewEntry.event.status \in FollowUps
        /\ NewEntry.app_id # None
        /\ ~NewEntry.created)
       => \E k \in DOMAIN pinecone :
            /\ pinecone[k].application_id = NewEntry.app_id
            /\ ExactGE(CandidateScore(NewEntry.event, pinecone[k]), 7, 10)]_vars

\* the search order the event types are to follow
ClaimedOrder(status) ==
    CASE status = "interview" -> <<"interview", "application">>
      [] status = "rejected" -> <<"application">>
      [] status = "offer" -> <<"offer", "interview", "application">>

\* the namespaces process_messages queries for an event, in order: it stops at the
\* first one that yields an application_id
RECURSIVE ScriptQueried(_, _)
ScriptQueried(order, i) ==
    IF i > Len(order)
    THEN <<>>
    ELSE IF search_pinecone(pinecone, order[i], UserEmail) = {None}
         THEN <<order[i]>> \o ScriptQueried(order, i + 1)
         ELSE <<order[i]>>

\* the record kinds the matcher queries for the event at the cursor; the script names
\* its application namespace "applications", the Flask matcher filters on the type
\* 'application' whatever the status
Queried ==
    IF program = "script"
    THEN LET q == ScriptQueried(SearchOrder(CursorEvent.status), 1)
         IN  [i \in DOMAIN q |-> IF q[i] = "applications" THEN "application" ELSE q[i]]
    ELSE <<"application">>

\* the matcher is about to be called for a follow-up event
AboutToMatch ==
    /\ run.pc = "process"
    /\ run.idx <= Len(run.messages)
    /\ CursorEvent.status \in FollowUps
    /\ IF program = "script" THEN RequiredPresent(CursorEvent) ELSE run.pinecone_index

\* C17: the namespaces queried for a follow-up event are an initial part of the order
\* of its type: interview then application for 'interview', application only for
\* 'rejected', offer then interview then application for 'offer'.
C17_NamespaceSearchOrder ==
    AboutToMatch =>
        /\ Len(Queried) >= 1
        /\ Len(Queried) <= Len(ClaimedOrder(CursorEvent.status))
        /\ \A i \in DOMAIN Queried : Queried[i] = ClaimedOrder(CursorEvent.status)[i]

\* the step processes an 'applied' event that has company, role and date
AppliedStep ==
    /\ HandsEmail
    /\ CursorEvent.status = "applied"
    /\ RequiredPresent(CursorEvent)

\* C18: a step that processes an 'applied' event with all required fields adds
\* exactly one Application row with a fresh application_id and exactly one vector, an
\* application record that carries that id, whatever the index already holds.
C18_AppliedAlwaysCreates ==
    [][AppliedStep =>
        /\ Len(applications') = Len(applications) + 1
        /\ \A i \in DOMAIN applications : applications'[i] = applications[i]
        /\ applications'[Len(applications')].application_id = Len(applications')
        /\ applications'[Len(applications')].company_name = CursorEvent.company_name
        /\ applications'[Len(applications')].position_title = CursorEvent.role
        /\ NewEntry.created /\ NewEntry.app_id = Len(applications')
        /\ Len(pinecone') = Len(pinecone) + 1
        /\ \A i \in DOMAIN pinecone : pinecone'[i] = pinecone[i]
        /\ pinecone'[Len(pinecone')].application_id = Len(applications')
        /\ IF program = "script"
           THEN pinecone'[Len(pinecone')].namespace = "applications"
           ELSE pinecone'[Len(pinecone')].type = "application"
        /\ UNCHANGED <<rejections, interviews, offers>>]_vars

\* two 'applied' events of the same company and role were processed while the index
\* already held a vector of that company and role: each created its own Application
C18_Witness ==
    \E i, j \in DOMAIN handed :
        /\ i < j
        /\ handed[i].event.status = "applied" /\ handed[i].created
        /\ handed[j].event.status = "applied" /\ handed[j].created
        /\ handed[i].event.company_name = handed[j].event.company_name
        /\ handed[i].event.role = handed[j].event.role
        /\ handed[i].app_id # handed[j].app_id
        /\ Len(applications) = 2
        /\ Len(pinecone) = 2

\* C19: a follow-up event with its fields present that resolves to no existing
\* application gets a new Application row of its company and role, and the history
\* records that application id for it.
C19_UnmatchedCreatesApplication ==
    \A i \in DOMAIN handed :
        (/\ handed[i].event.status \in FollowUps
         /\ RequiredPresent(handed[i].event)
         /\ handed[i].fault = "none")
        => /\ handed[i].app_id # None
           /\ handed[i].app_id \in DOMAIN applications

\* C20: when the embedding call fails for a follow-up event, the event is treated as
\* unmatched: a new Application is created for it and the run goes on.
C20_EmbeddingFailureFallsBack ==
    [][(/\ HandsEmail
        /\ NewEntry.fault = "embedding"
        /\ NewEntry.event.status \in FollowUps
        /\ RequiredPresent(NewEntry.event))
       => /\ Len(applications') = Len(applications) + 1
          /\ NewEntry.created
          /\ run'.pc = "process"]_vars

\* the step hands over an email during which a vector-index call failed
VectorCallFails ==
    /\ HandsEmail
    /\ \/ NewEntry.fault = "vector"
       \/ program = "app" /\ NewEntry.fault = "embedding"

\* C21: a failing vector-index call is never fatal: the email it failed for is taken as
\* having no match in the index, and the run goes on to its next email.
C21_VectorFailureNotFatal ==
    [][VectorCallFails =>
        /\ NewEntry.event.status \in FollowUps => NewEntry.app_id = None
        /\ run'.pc = "process"
        /\ run'.idx = run.idx + 1]_vars

\* the step commits the Application row of an event and the vector upsert after it fails
UpsertFailsAfterCommit ==
    /\ HandsEmail
    /\ NewEntry.created
    /\ NewEntry.fault \in {"upsert", "embedding"}

\* C22: when the vector upsert that follows a committed relational row fails, the row
\* is kept as committed, no row is ever taken back, and the run goes on.
C22_RowSurvivesFailedUpsert ==
    [][/\ UpsertFailsAfterCommit =>
            /\ NewEntry.app_id \in DOMAIN applications'
            /\ applications'[NewEntry.app_id].company_name = NewEntry.event.company_name
            /\ pinecone' = pinecone
            /\ run'.pc = "process"
            /\ run'.idx = run.idx + 1
       /\ \A i \in DOMAIN applications :
            i \in DOMAIN applications' /\ applications'[i] = applications[i]]_vars

\* the returned candidates whose combined score clears the threshold
Clearing ==
    {i \in 1..Len(fm.matches) :
        ScoreGT(MatchScore(fm.company_name, fm.position_title, fm.matches[i]), Threshold)}

\* those of them no other one outscores
TopScoring ==
    {i \in Clearing :
        \A j \in Clearing :
            ~ScoreGT(MatchScore(fm.company_name, fm.position_title, fm.matches[j]),
                     MatchScore(fm.company_name, fm.position_title, fm.matches[i]))}

\* C23: a finished call returns the application of a candidate with the highest
\* combined score among those that clear the threshold, and among several with that
\* score the largest application_id, in whatever order the index returned them.
C23_TieBreakLargestId ==
    (fm.pc = "done" /\ fm.embedding_ok /\ TopScoring # {}) =>
        /\ \E i \in TopScoring : fm.result = fm.matches[i].application_id
        /\ \A i \in TopScoring : fm.result >= fm.matches[i].application_id

\* C24: when a job over several users is over, process_user_emails was called for every
\* one of them, also when the call for one of them raised.
C24_PerUserIsolation ==
    (program = "job" /\ run.pc = "done") =>
        \A i \in DOMAIN run.users : \E k \in DOMAIN handed : handed[k].user = run.users[i]

\* the email was handed to classification by some run
Attempted(id) == \E k \in DOMAIN handed : handed[k].email = id

\* the email is in the mailbox, not older than the user's watermark and older than the
\* clock, and a run is still to come
AwaitsRun(id) ==
    /\ id \in DOMAIN mailbox
    /\ user.exists
    /\ mailbox[id].internalDate >= user.email_parse_start_date
    /\ mailbox[id].internalDate < now
    /\ run.n < MaxRuns

\* C25: under fair scheduling of the runs, every email received at or after the user's
\* watermark is eventually fetched and handed to classification by some run.
C25_EventualProcessing ==
    \A id \in 1..MaxEmails : AwaitsRun(id) ~> Attempted(id)

\* the run at its end has gone through all its emails
RunCompletes == RunEnds /\ run.idx > Len(run.messages)

\* C26: a user row created on first observation carries the Unix-epoch watermark and an
\* unset first-sync flag; a run that completes leaves the flag set; a set flag is never
\* reset.
C26_FirstSyncProtocol ==
    [][/\ (~user.exists /\ user'.exists) =>
            (user'.email_parse_start_date = Epoch /\ ~user'.emails_parsed)
       /\ RunCompletes => user'.emails_parsed
       /\ (user.exists /\ user.emails_parsed) => user'.emails_parsed]_vars

\* the invocations of the wrapped function so far that failed
FailedUpTo(n) == \A k \in 1..n : ~fm.outcomes[k]

RetryBound ==
    /\ fm.invocations <= fm.max_attempts
    /\ fm.pc = "returned" =>
            /\ fm.outcomes[fm.invocations]
            /\ FailedUpTo(fm.invocations - 1)
            /\ fm.result = fm.invocations
    /\ fm.pc = "raised" =>
            /\ fm.invocations = fm.max_attempts
            /\ FailedUpTo(fm.max_attempts)
            /\ fm.result = fm.max_attempts

\* C27: a call through exponential_backoff_retry(max_attempts = N) invokes the function
\* at most N times; it returns the value of the first invocation that succeeds without
\* invoking again; after N failures in a row it re-raises the last exception; and every
\* call ends.
C27_RetryBound ==
    /\ []RetryBound
    /\ <>(fm.pc \in {"returned", "raised"})

C27_Witness ==
    /\ program = "retry"
    /\ fm.pc = "raised"
    /\ fm.max_attempts = MaxAttempts
    /\ fm.invocations = MaxAttempts
    /\ fm.slept >= Delay(1) + Delay(2) + Delay(3) + Delay(4)

\* the step processes a classified event that lacks its company name or its role
LacksRequiredField ==
    /\ HandsEmail
    /\ NewEntry.event.status \in FollowUps \cup {"applied"}
    /\ ~Truthy(NewEntry.event.company_name) \/ ~Truthy(NewEntry.event.role)

\* C28: an event of any type that lacks a company name or a role is dropped before the
\* vector index is searched for it, and writes no relational row and no vector.
C28_RequiredFieldValidation ==
    [][LacksRequiredField =>
        /\ ~NewEntry.matcher
        /\ UNCHANGED <<applications, rejections, interviews, offers, pinecone>>]_vars

\* the step is a call of create_offer that states no decision (the default False) for
\* an application whose Offer row has a recorded one
OfferEventOnDecided ==
    /\ fm'.pc = "done" /\ fm'.fn = "create_offer"
    /\ ~fm'.accepted_or_declined
    /\ \E i \in DOMAIN offers : /\ offers[i].application_id = fm'.application_id
                                /\ offers[i].accepted_or_declined

\* C29: an offer event that states no decision, applied to an application whose Offer
\* row has a recorded decision, leaves that row's accepted_or_declined as it was; no
\* step changes the decision of an existing Offer row.
C29_OfferKeepsDecision ==
    [][/\ OfferEventOnDecided => (offers' = offers /\ fm'.result = fm'.application_id)
       /\ \A i \in DOMAIN offers :
            /\ i \in DOMAIN offers'
            /\ offers'[i].application_id = offers[i].application_id
            /\ offers'[i].accepted_or_declined = offers[i].accepted_or_declined]_vars

\* create_offer without a decision was called for an application whose Offer row says
\* accepted
C29_Witness ==
    /\ program = "db"
    /\ fm.pc = "done" /\ fm.fn = "create_offer"
    /\ ~fm.accepted_or_declined
    /\ fm.result = fm.application_id
    /\ \E i \in DOMAIN offers : /\ offers[i].application_id = fm.application_id
                                /\ offers[i].accepted_or_declined

\* C30: every Rejection, Interview and Offer row references an application_id that
\* exists as an Application row, also when the vector index returns a candidate whose
\* application is not in the relational store.
C30_ChildRowsReferenceApplications ==
    /\ \A r \in rejections : r.application_id \in DOMAIN applications
    /\ \A i \in DOMAIN interviews : interviews[i].application_id \in DOMAIN applications
    /\ \A i \in DOMAIN offers : offers[i].application_id \in DOMAIN applications

\* the interview records the index holds for an application and a round
InterviewVectors(application_id, round) ==
    {k \in DOMAIN pinecone :
        IF program = "script"
        THEN /\ pinecone[k].namespace = "interview"
             /\ pinecone[k].application_id = application_id
             /\ pinecone[k].interview_round = round
        ELSE /\ pinecone[k].type = "interview"
             /\ pinecone[k].application_id = application_id}

\* C31: for every Interview row the index holds exactly one interview record of its
\* (application, round), however many interview events of that pair were processed.
C31_InterviewVectorsDoNotAccumulate ==
    \A i \in DOMAIN interviews :
        Cardinality(InterviewVectors(interviews[i].application_id, interviews[i].round)) = 1

\* C32: when the processing of an email ends, by its end or by an exception, the
\* relational store has all rows of its event or none: a follow-up event for which an
\* Application was created has its Rejection, Interview or Offer row as well.
C32_NoPartialReconciliation ==
    [][(/\ HandsEmail
        /\ NewEntry.event.status \in FollowUps
        /\ applications' # applications)
       => <<rejections, interviews, offers>>' # <<rejections, interviews, offers>>]_vars

\* C33: when runs of a user overlap, no email is reconciled by two of them and no
\* Application is created twice for the same email.
C33_OverlapNoDuplicateWork ==
    \A i, j \in DOMAIN handed :
        (i # j /\ handed[i].email = handed[j].email) =>
            /\ handed[i].run = handed[j].run
            /\ ~(handed[i].created /\ handed[j].created)

\* both runs have finished, the first started before the second
BothFinished ==
    /\ \A r \in Runs : run[r].pc = "done"
    /\ run[1].start_time < run[2].start_time

\* C34: when two runs of a user overlap, the stored watermark never decreases, and
\* after both have finished it is the start time of the later run.
C34_NoLostWatermarkUpdate ==
    [][/\ (user.exists /\ user'.exists) =>
            user'.email_parse_start_date >= user.email_parse_start_date
       /\ BothFinished' => user'.email_parse_start_date = run'[2].start_time]_vars

\* a run of the Flask app that is not the user's first and fetched no email
IncrementalEmptyRun == program = "app" /\ run.pc = "process" /\ ~run.first /\ run.messages = <<>>

\* C35: a run of process_user_emails that finds the first-sync flag set and fetches no
\* email leaves the user's watermark and flag, the four tables and the vector index
\* as they are, from its start to its end.
C35_EmptyIncrementalRunWritesNothing ==
    [][(IncrementalEmptyRun \/ IncrementalEmptyRun') =>
        UNCHANGED <<user, applications, rejections, interviews, offers, pinecone>>]_vars

\* the user's second run has ended without an email to attempt, mail has arrived
\* since, and the watermark is still the one the first run wrote, before now
C35_Witness ==
    /\ program = "app"
    /\ run.pc = "idle"
    /\ run.n = 2
    /\ user.exists /\ user.emails_parsed
    /\ \A i \in DOMAIN handed : handed[i].run # 2
    /\ mailbox # <<>>
    /\ now > user.email_parse_start_date

\* the arguments a db_service create function looks its row up by
CallKey(call) ==
    CASE call.fn = "create_application" -> <<call.company_name, call.position_title>>
      [] call.fn = "create_interview" -> <<call.application_id, call.round>>
      [] OTHER -> <<call.application_id>>

\* C36: a db_service create function called again with the arguments it looks its row
\* up by, after a call that returned a row, returns that same row, adds no row and
\* changes no field of a row, whatever the other arguments of the second call are.
C36_GetOrCreate ==
    [][(/\ fm.pc = "done" /\ fm.result # None
        /\ fm'.fn = fm.fn /\ CallKey(fm') = CallKey(fm))
       => /\ fm'.result = fm.result
          /\ UNCHANGED <<applications, rejections, interviews, offers>>]_vars

\* create_rejection was called with another date for an application that has a
\* Rejection row, and returned that row with the date of the first call
C36_Witness ==
    /\ program = "db_rejections"
    /\ fm.pc = "done" /\ fm.fn = "create_rejection"
    /\ fm.result = fm.application_id
    /\ \E r \in rejections : /\ r.application_id = fm.application_id
                             /\ r.rejection_date # fm.rejection_date

\* the pairs of strings a finished call of find_matching_application applied
\* similarity to: the query's company and position against each candidate's
SimilarityCalls ==
    IF fm.pc = "done" /\ fm.embedding_ok
    THEN {<<lower(fm.company_name), lower(fm.matches[i].company_name)>> : i \in DOMAIN fm.matches}
         \cup {<<lower(fm.position_title), lower(fm.matches[i].position_title)>> : i \in DOMAIN fm.matches}
    ELSE {}

\* one lower-cased string contains the other
OneContainsOther(a, b) == IsSubstring(lower(a), lower(b)) \/ IsSubstring(lower(b), lower(a))

\* the fraction s is |common words| / |union of words| of the lower-cased strings
IsJaccardRatio(s, a, b) ==
    LET wa == words(lower(a))
        wb == words(lower(b))
    IN  IF wa \cup wb = {} THEN s[1] = 0
        ELSE s[1] * Cardinality(wa \cup wb) = Cardinality(wa \cap wb) * s[2]

\* C37: similarity gives the same result for (a, b) and (b, a), a result between 0 and
\* 1, 0.9 when one lower-cased string contains the other (equal strings included), and
\* otherwise the ratio of common words to all words of the two strings.
C37_SimilaritySymmetricBounded ==
    \A p \in SimilarityCalls :
        LET s == similarity(p[1], p[2])
        IN  /\ s = similarity(p[2], p[1])
            /\ s[2] > 0 /\ 0 <= s[1] /\ s[1] <= s[2]
            /\ IF OneContainsOther(p[1], p[2])
               THEN s[1] * 10 = 9 * s[2]
               ELSE IsJaccardRatio(s, p[1], p[2])

\* a finished call compared equal strings, a string with one that contains it, and two
\* strings that share some of their words
C37_Witness ==
    /\ \E p \in SimilarityCalls : p[1] = p[2]
    /\ \E p \in SimilarityCalls : p[1] # p[2] /\ OneContainsOther(p[1], p[2])
    /\ \E p \in SimilarityCalls :
        /\ ~OneContainsOther(p[1], p[2])
        /\ similarity(p[1], p[2])[1] > 0
        /\ similarity(p[1], p[2])[1] < similarity(p[1], p[2])[2]

\* C38: similarity is 0 whenever one of the two strings has no words (is empty or only
\* whitespace), so a candidate without company_name or position_title metadata gets 0
\* for that part of the combined score.
C38_NoWordsScoresZero ==
    \A p \in SimilarityCalls :
        (words(p[1]) = {} \/ words(p[2]) = {}) => similarity(p[1], p[2])[1] = 0

====
